---------------------------- MODULE Spec2Model ----------------------------
(***************************************************************************)
(* Model of src/main.py: the POST /obfuscate handler `obfuscate`, the      *)
(* webhook notifier `send_to_webhook` and the two-call obfuscation client  *)
(* `obfuscate_script`.                                                     *)
(*                                                                         *)
(* Text (Python str) is a sequence of code points; bytes are a sequence of *)
(* numbers 0..255; a file name is a sequence of one-character strings.     *)
(* The handler is cut into steps at its suspension points (the awaits on   *)
(* the three outbound calls and the exit of the `async with` block).       *)
(*                                                                         *)
(* Runs: run 1 is the request under study.  Run 2 is the reference run of  *)
(* the same request against the same obfuscation service, in a deployment  *)
(* whose webhook is configured and answers 204; it exists only under       *)
(* TwinSpec, where it lets a property relate the two responses.            *)
(***************************************************************************)
EXTENDS Naturals, Sequences, FiniteSets

VARIABLES
  LUAOBFUSCATOR_API_KEY, \* TRUE iff the environment defines a non-empty key
  WEBHOOK_URL,           \* [Runs -> BOOLEAN]: the deployment's webhook is set
  request,               \* the form fields of the request: file, script, filename
  service,               \* what the obfuscation service answers to this request
  pc,                    \* [Runs -> position of the handler]
  incoming_name,         \* [Runs -> file name]
  content,               \* [Runs -> text]
  session,               \* [Runs -> "unopened" | "open" | "closed"]
  session_id,            \* [Runs -> JSON value of data.get("sessionId")]
  obfuscated,            \* [Runs -> value returned by obfuscate_script]
  response,              \* [Runs -> the HTTP response of the handler]
  responses,             \* [Runs -> number of responses produced]
  webhook_form,          \* [Runs -> the multipart form posted to the webhook]
  calls,                 \* [Runs -> history of calls, posts and replies]
  logged                 \* [Runs -> set of log records emitted]

vars == << LUAOBFUSCATOR_API_KEY, WEBHOOK_URL, request, service, pc,
           incoming_name, content, session, session_id, obfuscated,
           response, responses, webhook_form, calls, logged >>

Runs == {1, 2}

(***************************************************************************)
(* Bounds                                                                  *)
(***************************************************************************)
MaxLen == 2      \* longest uploaded file, in bytes

(***************************************************************************)
(* str.lower() and str.endswith() on file names                            *)
(***************************************************************************)
UpperCase == << "A","B","C","D","E","F","G","H","I","J","K","L","M",
                "N","O","P","Q","R","S","T","U","V","W","X","Y","Z" >>
LowerCase == << "a","b","c","d","e","f","g","h","i","j","k","l","m",
                "n","o","p","q","r","s","t","u","v","w","x","y","z" >>

LowerChar(c) ==
  IF \E i \in DOMAIN UpperCase : UpperCase[i] = c
  THEN LowerCase[CHOOSE i \in DOMAIN UpperCase : UpperCase[i] = c]
  ELSE c

Lower(s) == [i \in DOMAIN s |-> LowerChar(s[i])]

EndsWith(s, suffix) ==
  /\ Len(s) >= Len(suffix)
  /\ SubSeq(s, Len(s) - Len(suffix) + 1, Len(s)) = suffix

DotLua == << ".", "l", "u", "a" >>
DotTxt == << ".", "t", "x", "t" >>

(***************************************************************************)
(* bytes.decode("utf-8", errors="replace") and str.encode("utf-8")         *)
(***************************************************************************)
IsCont(b) == b >= 128 /\ b <= 191

\* The range the byte after lead byte b0 must lie in (Unicode table 3-7).
SecondLo(b0) == IF b0 = 224 THEN 160 ELSE IF b0 = 240 THEN 144 ELSE 128
SecondHi(b0) == IF b0 = 237 THEN 159 ELSE IF b0 = 244 THEN 143 ELSE 191

\* Number of bytes the sequence led by b0 takes; 0 when b0 is no lead byte.
SeqLen(b0) ==
  IF b0 < 128 THEN 1
  ELSE IF b0 >= 194 /\ b0 <= 223 THEN 2
  ELSE IF b0 >= 224 /\ b0 <= 239 THEN 3
  ELSE IF b0 >= 240 /\ b0 <= 244 THEN 4
  ELSE 0

\* How many bytes from position i on form a valid prefix of one sequence.
ValidPrefix(bs, i) ==
  LET n  == SeqLen(bs[i])
      ok2 == i + 1 <= Len(bs) /\ bs[i+1] >= SecondLo(bs[i]) /\ bs[i+1] <= SecondHi(bs[i])
      ok3 == ok2 /\ i + 2 <= Len(bs) /\ IsCont(bs[i+2])
      ok4 == ok3 /\ i + 3 <= Len(bs) /\ IsCont(bs[i+3])
  IN  IF n <= 1 THEN 1
      ELSE IF ~ok2 THEN 1
      ELSE IF n = 2 THEN 2
      ELSE IF ~ok3 THEN 2
      ELSE IF n = 3 THEN 3
      ELSE IF ~ok4 THEN 3
      ELSE 4

CodePoint(bs, i, n) ==
  IF n = 1 THEN bs[i]
  ELSE IF n = 2 THEN (bs[i] - 192) * 64 + (bs[i+1] - 128)
  ELSE IF n = 3 THEN (bs[i] - 224) * 4096 + (bs[i+1] - 128) * 64 + (bs[i+2] - 128)
  ELSE (bs[i] - 240) * 262144 + (bs[i+1] - 128) * 4096
         + (bs[i+2] - 128) * 64 + (bs[i+3] - 128)

RECURSIVE DecodeFrom(_, _)
DecodeFrom(bs, i) ==
  IF i > Len(bs) THEN << >>
  ELSE LET n == SeqLen(bs[i])
           k == ValidPrefix(bs, i)
       IN  IF n # 0 /\ k = n
           THEN << CodePoint(bs, i, n) >> \o DecodeFrom(bs, i + n)
           ELSE << 65533 >> \o DecodeFrom(bs, i + k)

\* raw.decode("utf-8", errors="replace")
DecodeReplace(bs) == DecodeFrom(bs, 1)

IsSurrogate(cp) == cp >= 55296 /\ cp <= 57343

EncodeChar(cp) ==
  IF cp < 128 THEN << cp >>
  ELSE IF cp < 2048 THEN << 192 + (cp \div 64), 128 + (cp % 64) >>
  ELSE IF cp < 65536
       THEN << 224 + (cp \div 4096), 128 + ((cp \div 64) % 64), 128 + (cp % 64) >>
  ELSE << 240 + (cp \div 262144), 128 + ((cp \div 4096) % 64),
          128 + ((cp \div 64) % 64), 128 + (cp % 64) >>

RECURSIVE EncodeFrom(_, _)
EncodeFrom(t, i) ==
  IF i > Len(t) THEN << >> ELSE EncodeChar(t[i]) \o EncodeFrom(t, i + 1)

\* str.encode("utf-8") raises UnicodeEncodeError on a lone surrogate.
CanEncode(t) == \A i \in DOMAIN t : ~IsSurrogate(t[i])
Encode(t) == EncodeFrom(t, 1)

(***************************************************************************)
(* Values                                                                  *)
(***************************************************************************)
\* A Python value that json.loads can put under a key: None, int or str.
PyNone      == [type |-> "None", num |-> 0, text |-> << >>]
PyInt(n)    == [type |-> "int",  num |-> n, text |-> << >>]
PyStr(t)    == [type |-> "str",  num |-> 0, text |-> t]

\* bool(v) for such a value
Truthy(v) ==
  \/ v.type = "int" /\ v.num # 0
  \/ v.type = "str" /\ v.text # << >>

uploaded_script_lua ==
  << "u","p","l","o","a","d","e","d","_","s","c","r","i","p","t",".","l","u","a" >>
pasted_script_lua ==
  << "p","a","s","t","e","d","_","s","c","r","i","p","t",".","l","u","a" >>
obfuscated_prefix == << "o","b","f","u","s","c","a","t","e","d","_" >>

(***************************************************************************)
(* Inputs: the form fields of a request                                    *)
(***************************************************************************)
ByteAlphabet == {65, 195, 169}      \* 'A', a two-byte lead, a continuation

RECURSIVE BytesUpTo(_)
BytesUpTo(n) ==
  IF n = 0 THEN { << >> }
  ELSE LET shorter == BytesUpTo(n - 1)
       IN  shorter \cup { Append(b, x) : b \in shorter, x \in ByteAlphabet }

\* file.filename: "", "t.lua" or "s"
UploadNames == { << >>, << "t",".","l","u","a" >>, << "s" >> }

\* file: None, every content under the name "s", and every name with the
\* content "A".
NoFile == [present |-> FALSE, filename |-> << >>, bytes |-> << >>]
Files  == { NoFile }
          \cup { [present |-> TRUE, filename |-> << "s" >>, bytes |-> b] :
                   b \in BytesUpTo(MaxLen) }
          \cup { [present |-> TRUE, filename |-> n, bytes |-> << 65 >>] :
                   n \in UploadNames }

\* script: None, "" or "x"
NoScript == [given |-> FALSE, text |-> << >>]
Scripts  == { NoScript } \cup
            { [given |-> TRUE, text |-> t] : t \in { << >>, << 120 >> } }

\* filename: None, "", "out", "o.LUA" or "n.txt"
NoFilename == [given |-> FALSE, text |-> << >>]
Filenames  == { NoFilename } \cup
              { [given |-> TRUE, text |-> t] :
                  t \in { << >>, << "o","u","t" >>, << "o",".","L","U","A" >>,
                          << "n",".","t","x","t" >> } }

\* Every file with every script and no requested name, and every requested
\* name with every script and either no file or the file "s" holding "A".
Requests ==
  { [file |-> f, script |-> sc, filename |-> NoFilename] :
      f \in Files, sc \in Scripts }
  \cup
  { [file |-> f, script |-> sc, filename |-> n] :
      f \in { NoFile, [present |-> TRUE, filename |-> << "s" >>, bytes |-> << 65 >>] },
      sc \in Scripts, n \in Filenames }

NoRequest == [file |-> NoFile, script |-> NoScript, filename |-> NoFilename]

(***************************************************************************)
(* Environment: replies of the webhook and of the obfuscation service      *)
(***************************************************************************)
Reply(net, status, json, field) ==
  [net |-> net, status |-> status, json |-> json, field |-> field]

NetFailures == { Reply(n, 0, "none", PyNone) : n \in {"error", "timeout"} }

WebhookReplies ==
  NetFailures \cup { Reply("ok", st, "none", PyNone) : st \in {200, 204, 500} }

\* The reference run's webhook answers 204.
WebhookRepliesOf(r) ==
  IF r = 1 THEN WebhookReplies ELSE { Reply("ok", 204, "none", PyNone) }

\* json: "malformed" (resp.json() raises), "array" (not an object),
\* "absent" (an object without the field) or "object" (field has the value).
JsonReplies(values) ==
  { Reply("ok", 200, j, PyNone) : j \in {"malformed", "array", "absent"} }
    \cup { Reply("ok", 200, "object", v) : v \in values }

SessionIds == { PyNone, PyInt(0), PyInt(7), PyStr(<< >>), PyStr(<< 115 >>) }
Codes      == { PyNone, PyInt(7), PyStr(<< >>), PyStr(<< 111, 98 >>),
                PyStr(<< 55296 >>) }

NewscriptReplies ==
  NetFailures \cup { Reply("ok", 500, "none", PyNone) } \cup JsonReplies(SessionIds)
TransformReplies ==
  NetFailures \cup { Reply("ok", 500, "none", PyNone) } \cup JsonReplies(Codes)

Unasked == [asked |-> FALSE, reply |-> Reply("ok", 0, "none", PyNone)]

\* The service answers a replayed request as it answered it the first time.
Answers(oracle, replies) == IF oracle.asked THEN { oracle.reply } ELSE replies

(***************************************************************************)
(* obfuscate(): validation, source name, content, output name, response    *)
(***************************************************************************)
\* Mutant: tests `script is None` instead of the truth value of script.
NoInputNoneOnly(file, script) ==
  ~file.present /\ ~script.given

\* `if not file and not script`
NoInput(file, script) ==
  ~file.present /\ ~(script.given /\ script.text # << >>)

\* incoming_name
IncomingName(file) ==
  IF file.present
  THEN IF file.filename # << >> THEN file.filename ELSE uploaded_script_lua
  ELSE pasted_script_lua

\* Mutant: the pasted text wins over the uploaded file.
ContentScriptFirst(file, script) ==
  IF script.given /\ script.text # << >> THEN script.text
  ELSE IF file.present THEN DecodeReplace(file.bytes) ELSE << >>

\* Mutant: the upload is decoded as Latin-1, one character per byte.
ContentLatin1(file, script) ==
  IF file.present THEN file.bytes
  ELSE IF script.given /\ script.text # << >> THEN script.text ELSE << >>

\* content
Content(file, script) ==
  IF file.present THEN DecodeReplace(file.bytes)
  ELSE IF script.given /\ script.text # << >> THEN script.text ELSE << >>

\* Mutant: the suffix test without .lower().
OutNameCaseSensitive(filename, incoming) ==
  LET out_name == IF filename.given /\ filename.text # << >>
                  THEN filename.text
                  ELSE obfuscated_prefix \o incoming
  IN  IF ~(EndsWith(out_name, DotLua) \/ EndsWith(out_name, DotTxt))
      THEN out_name \o DotLua
      ELSE out_name

\* out_name
OutName(filename, incoming) ==
  LET out_name == IF filename.given /\ filename.text # << >>
                  THEN filename.text
                  ELSE obfuscated_prefix \o incoming
  IN  IF ~(EndsWith(Lower(out_name), DotLua) \/ EndsWith(Lower(out_name), DotTxt))
      THEN out_name \o DotLua
      ELSE out_name

NoResponse == [status |-> 0, media_type |-> "", body |-> << >>,
               filename |-> << >>, html |-> ""]

HTMLResponse(html, status_code) ==
  [status |-> status_code, media_type |-> "text/html", body |-> << >>,
   filename |-> << >>, html |-> html]

StreamingResponse(body, out_name) ==
  [status |-> 200, media_type |-> "text/plain", body |-> body,
   filename |-> out_name, html |-> ""]

NoInputResponse == HTMLResponse("Error: No input provided.", 400)

\* Mutant: the except clause answers 502.
ErrorResponseBadGateway(e) == HTMLResponse(e, 502)

\* `except Exception as e` of obfuscate()
ErrorResponse(e) == HTMLResponse(e, 500)

\* Lines 296-303: the response built from the value obfuscate_script returned.
\* value.encode raises AttributeError when value is no str, and
\* UnicodeEncodeError on a lone surrogate.
BuildResponse(value, filename, incoming) ==
  IF value.type # "str" THEN ErrorResponse("Error: AttributeError")
  ELSE IF ~CanEncode(value.text) THEN ErrorResponse("Error: UnicodeEncodeError")
  ELSE StreamingResponse(Encode(value.text), OutName(filename, incoming))

(***************************************************************************)
(* send_to_webhook()                                                       *)
(***************************************************************************)
NoForm == [posted |-> FALSE, payload_json |-> << >>, filename |-> << >>,
           file |-> << >>, content_type |-> ""]

\* The multipart form: the message names `filename`, the file part carries
\* the encoded content under `filename`.
WebhookForm(filename, text) ==
  [posted |-> TRUE, payload_json |-> filename, filename |-> filename,
   file |-> Encode(text), content_type |-> "text/plain"]

\* What send_to_webhook logs for a reply.
WebhookLog(rep) ==
  IF rep.net # "ok" THEN { "exception: webhook" }
  ELSE IF rep.status \notin {200, 204} THEN { "warning: webhook" }
  ELSE { }

\* Mutant: `except aiohttp.ClientError`, which a timeout is not.
WebhookCaughtClientErrorOnly(rep) == rep.net # "timeout"

\* `except Exception` around the post: TRUE iff the failure is swallowed.
WebhookCaught(rep) == TRUE

(***************************************************************************)
(* obfuscate_script()                                                      *)
(***************************************************************************)
\* data.get(key): None for a missing key
JsonGet(rep) == IF rep.json = "object" THEN rep.field ELSE PyNone

\* Mutant: tests `session_id is None` instead of the truth value.
AfterNewscriptNoneCheck(rep) ==
  IF rep.net # "ok" THEN "exception"
  ELSE IF rep.status # 200 THEN "non200"
  ELSE IF rep.json \in {"malformed", "array"} THEN "exception"
  ELSE IF JsonGet(rep).type = "None" THEN "no_session"
  ELSE "transform"

\* The outcome of the newscript exchange: "exception" (caught by the outer
\* except), "non200", "no_session" or "transform" (go on to the second call).
AfterNewscript(rep) ==
  IF rep.net # "ok" THEN "exception"
  ELSE IF rep.status # 200 THEN "non200"
  ELSE IF rep.json \in {"malformed", "array"} THEN "exception"
  ELSE IF ~Truthy(JsonGet(rep)) THEN "no_session"
  ELSE "transform"

\* A header value that is no str makes session.post raise before anything
\* is sent.
CanPostTransform(sid) == sid.type = "str"

\* The value obfuscate_script returns after the transform exchange.
AfterTransform(rep, script) ==
  IF rep.net # "ok" THEN PyStr(script)
  ELSE IF rep.status # 200 THEN PyStr(script)
  ELSE IF rep.json \in {"malformed", "array"} THEN PyStr(script)
  ELSE IF rep.json = "absent" THEN PyStr(script)
  ELSE rep.field

TransformLog(rep) ==
  IF rep.net # "ok" THEN { "exception: obfuscation" }
  ELSE IF rep.status # 200 THEN { "warning: obfuscate" }
  ELSE IF rep.json \in {"malformed", "array"} THEN { "exception: obfuscation" }
  ELSE { }

(***************************************************************************)
(* State machine                                                           *)
(***************************************************************************)
InitCommon ==
  /\ LUAOBFUSCATOR_API_KEY \in BOOLEAN
  /\ WEBHOOK_URL \in { u \in [Runs -> BOOLEAN] : u[2] }
  /\ request = NoRequest
  /\ service = [newscript |-> Unasked, transform |-> Unasked]
  /\ incoming_name = [r \in Runs |-> << >>]
  /\ content = [r \in Runs |-> << >>]
  /\ session = [r \in Runs |-> "unopened"]
  /\ session_id = [r \in Runs |-> PyNone]
  /\ obfuscated = [r \in Runs |-> PyNone]
  /\ response = [r \in Runs |-> NoResponse]
  /\ responses = [r \in Runs |-> 0]
  /\ webhook_form = [r \in Runs |-> NoForm]
  /\ calls = [r \in Runs |-> << >>]
  /\ logged = [r \in Runs |-> { }]

\* One request.
Init ==
  /\ InitCommon
  /\ pc = [r \in Runs |-> IF r = 1 THEN "idle" ELSE "off"]

\* One request, then its reference run.
TwinInit ==
  /\ InitCommon
  /\ pc = [r \in Runs |-> "idle"]

Config == << LUAOBFUSCATOR_API_KEY, WEBHOOK_URL >>

\* Mutant: the two awaits of the block swapped.
SequelClientFirst(step) ==
  IF step = "open" THEN "client"
  ELSE IF step = "obfuscate_script" THEN "notify"
  ELSE "exit"

\* The statements of the `async with` block, in order: where the handler
\* continues once `step` is over.
Sequel(step) ==
  IF step = "open" THEN "notify"
  ELSE IF step = "send_to_webhook" THEN "client"
  ELSE "exit"

\* obfuscate(), lines 274-290: validate, resolve the content and its name,
\* open the client session.
Receive(r) ==
  /\ pc[r] = "idle"
  /\ r = 2 => pc[1] = "done"
  /\ \E req \in (IF r = 1 THEN Requests ELSE { request }) :
       /\ request' = req
       /\ IF NoInput(req.file, req.script)
          THEN /\ response' = [response EXCEPT ![r] = NoInputResponse]
               /\ responses' = [responses EXCEPT ![r] = @ + 1]
               /\ pc' = [pc EXCEPT ![r] = "done"]
               /\ UNCHANGED << incoming_name, content, session >>
          ELSE /\ incoming_name' = [incoming_name EXCEPT ![r] = IncomingName(req.file)]
               /\ content' = [content EXCEPT ![r] = Content(req.file, req.script)]
               /\ session' = [session EXCEPT ![r] = "open"]
               /\ pc' = [pc EXCEPT ![r] = Sequel("open")]
               /\ UNCHANGED << response, responses >>
  /\ UNCHANGED << Config, service, session_id, obfuscated, webhook_form, calls, logged >>

\* send_to_webhook(), lines 30-44: return at once without a URL, else post.
Notify(r) ==
  /\ pc[r] = "notify"
  /\ IF ~WEBHOOK_URL[r]
     THEN /\ calls' = [calls EXCEPT ![r] =
                         @ \o << "send_to_webhook.call", "send_to_webhook.return" >>]
          /\ logged' = [logged EXCEPT ![r] = @ \cup { "debug: no webhook" }]
          /\ pc' = [pc EXCEPT ![r] = Sequel("send_to_webhook")]
          /\ UNCHANGED webhook_form
     ELSE /\ calls' = [calls EXCEPT ![r] =
                         @ \o << "send_to_webhook.call", "webhook.post" >>]
          /\ webhook_form' = [webhook_form EXCEPT ![r] =
                                WebhookForm(incoming_name[r], content[r])]
          /\ pc' = [pc EXCEPT ![r] = "webhook_wait"]
          /\ UNCHANGED logged
  /\ UNCHANGED << Config, request, service, incoming_name, content, session,
                  session_id, obfuscated, response, responses >>

\* send_to_webhook(), lines 44-49: the post ends (status, error or timeout).
\* A failure that is not swallowed leaves the `async with` block of
\* obfuscate() as an exception.
WebhookReply(r) ==
  /\ pc[r] = "webhook_wait"
  /\ \E rep \in WebhookRepliesOf(r) :
       /\ logged' = [logged EXCEPT ![r] = @ \cup WebhookLog(rep)]
       /\ IF rep.net = "ok" \/ WebhookCaught(rep)
          THEN /\ calls' = [calls EXCEPT ![r] =
                              @ \o << "webhook.reply", "send_to_webhook.return" >>]
               /\ pc' = [pc EXCEPT ![r] = Sequel("send_to_webhook")]
          ELSE /\ calls' = [calls EXCEPT ![r] =
                              @ \o << "webhook.reply", "send_to_webhook.raise" >>]
               /\ pc' = [pc EXCEPT ![r] = "exit_raised"]
  /\ UNCHANGED << Config, request, service, incoming_name, content, session,
                  session_id, obfuscated, response, responses, webhook_form >>

\* obfuscate_script(), lines 52-68: return the script without a key, else
\* post it to newscript.
Client(r) ==
  /\ pc[r] = "client"
  /\ IF ~LUAOBFUSCATOR_API_KEY
     THEN /\ calls' = [calls EXCEPT ![r] =
                         @ \o << "obfuscate_script.call", "obfuscate_script.return" >>]
          /\ logged' = [logged EXCEPT ![r] = @ \cup { "debug: no api key" }]
          /\ obfuscated' = [obfuscated EXCEPT ![r] = PyStr(content[r])]
          /\ pc' = [pc EXCEPT ![r] = Sequel("obfuscate_script")]
     ELSE /\ calls' = [calls EXCEPT ![r] =
                         @ \o << "obfuscate_script.call", "newscript.post" >>]
          /\ pc' = [pc EXCEPT ![r] = "newscript_wait"]
          /\ UNCHANGED << logged, obfuscated >>
  /\ UNCHANGED << Config, request, service, incoming_name, content, session,
                  session_id, response, responses, webhook_form >>

\* obfuscate_script(), lines 68-91 and 98-100: the newscript call ends; on a
\* session id the transform is posted, otherwise the script is returned.
NewscriptReply(r) ==
  /\ pc[r] = "newscript_wait"
  /\ \E rep \in Answers(service.newscript, NewscriptReplies) :
       LET after == AfterNewscript(rep)
           sid   == JsonGet(rep)
           back  == << "newscript.reply", "obfuscate_script.return" >>
       IN
       /\ service' = [service EXCEPT !.newscript = [asked |-> TRUE, reply |-> rep]]
       /\ IF after = "transform" /\ CanPostTransform(sid)
          THEN /\ session_id' = [session_id EXCEPT ![r] = sid]
               /\ calls' = [calls EXCEPT ![r] =
                              @ \o << "newscript.reply", "transform.post" >>]
               /\ pc' = [pc EXCEPT ![r] = "transform_wait"]
               /\ UNCHANGED << obfuscated, logged >>
          ELSE /\ session_id' = [session_id EXCEPT ![r] =
                                   IF after \in {"transform", "no_session"}
                                   THEN sid ELSE @]
               /\ calls' = [calls EXCEPT ![r] = @ \o back]
               /\ logged' = [logged EXCEPT ![r] = @ \cup
                    { IF after = "non200" THEN "warning: newscript"
                      ELSE IF after = "no_session" THEN "warning: no sessionId"
                      ELSE "exception: obfuscation" }]
               /\ obfuscated' = [obfuscated EXCEPT ![r] = PyStr(content[r])]
               /\ pc' = [pc EXCEPT ![r] = Sequel("obfuscate_script")]
  /\ UNCHANGED << Config, request, incoming_name, content, session,
                  response, responses, webhook_form >>

\* obfuscate_script(), lines 91-100: the transform call ends.
TransformReply(r) ==
  /\ pc[r] = "transform_wait"
  /\ \E rep \in Answers(service.transform, TransformReplies) :
       /\ service' = [service EXCEPT !.transform = [asked |-> TRUE, reply |-> rep]]
       /\ obfuscated' = [obfuscated EXCEPT ![r] = AfterTransform(rep, content[r])]
       /\ logged' = [logged EXCEPT ![r] = @ \cup TransformLog(rep)]
  /\ calls' = [calls EXCEPT ![r] =
                 @ \o << "transform.reply", "obfuscate_script.return" >>]
  /\ pc' = [pc EXCEPT ![r] = Sequel("obfuscate_script")]
  /\ UNCHANGED << Config, request, incoming_name, content, session, session_id,
                  response, responses, webhook_form >>

\* obfuscate(), line 290: the `async with` block is left, normally or by an
\* exception, and the client session is closed.
CloseSession(r) ==
  /\ pc[r] \in {"exit", "exit_raised"}
  /\ session' = [session EXCEPT ![r] = "closed"]
  /\ pc' = [pc EXCEPT ![r] = IF pc[r] = "exit" THEN "respond" ELSE "except"]
  /\ UNCHANGED << Config, request, service, incoming_name, content, session_id,
                  obfuscated, response, responses, webhook_form, calls, logged >>

\* obfuscate(), lines 296-306: the file response, or the error page of the
\* except clause.
Respond(r) ==
  /\ pc[r] \in {"respond", "except"}
  /\ LET resp == IF pc[r] = "except"
                 THEN ErrorResponse("Error: webhook")
                 ELSE BuildResponse(obfuscated[r], request.filename, incoming_name[r])
     IN  /\ response' = [response EXCEPT ![r] = resp]
         /\ logged' = [logged EXCEPT ![r] =
                         IF resp.status = 200 THEN @
                         ELSE @ \cup { "exception: processing" }]
  /\ responses' = [responses EXCEPT ![r] = @ + 1]
  /\ pc' = [pc EXCEPT ![r] = "done"]
  /\ UNCHANGED << Config, request, service, incoming_name, content, session,
                  session_id, obfuscated, webhook_form, calls >>

Next ==
  \E r \in Runs :
    \/ Receive(r)
    \/ Notify(r)
    \/ WebhookReply(r)
    \/ Client(r)
    \/ NewscriptReply(r)
    \/ TransformReply(r)
    \/ CloseSession(r)
    \/ Respond(r)

Spec == Init /\ [][Next]_vars

\* Every outbound call replies, fails or times out, and the event loop runs
\* the handler whenever it can continue.
FairSpec == Spec /\ WF_vars(Next)

TwinSpec == TwinInit /\ [][Next]_vars

(***************************************************************************)
(* Properties                                                              *)
(***************************************************************************)
FilePresent   == request.file.present
ScriptPresent == request.script.given /\ request.script.text # << >>
Received(r)   == pc[r] \notin {"idle", "off"}
Accepted(r)   == Received(r) /\ (FilePresent \/ ScriptPresent)
Done(r)       == pc[r] = "done"

Has(h, e)   == \E i \in DOMAIN h : h[i] = e
Count(h, e) == Cardinality({ i \in DOMAIN h : h[i] = e })
\* every e2 of the history h comes after some e1
After(h, e1, e2) ==
  \A j \in DOMAIN h : h[j] = e2 => \E i \in 1..(j - 1) : h[i] = e1

\* The name the content came under.
SourceName ==
  IF FilePresent
  THEN IF request.file.filename # << >> THEN request.file.filename
       ELSE uploaded_script_lua
  ELSE pasted_script_lua

\* n ends in ".lua" or ".txt", in any letter case.
HasLuaOrTxtSuffix(n) ==
  /\ Len(n) >= 4
  /\ LET a == n[Len(n) - 3]
         b == n[Len(n) - 2]
         c == n[Len(n) - 1]
         d == n[Len(n)]
     IN  /\ a = "."
         /\ \/ b \in {"l", "L"} /\ c \in {"u", "U"} /\ d \in {"a", "A"}
            \/ b \in {"t", "T"} /\ c \in {"x", "X"} /\ d \in {"t", "T"}

\* C1: whatever happens to the webhook call (not configured, any status, a
\* transport error, a timeout), send_to_webhook never raises, and the
\* response has the status, body and file name of the reference run, in
\* which the webhook call succeeds.
C1_WebhookNeverAltersResponse ==
  /\ \A r \in Runs : ~Has(calls[r], "send_to_webhook.raise")
  /\ (Done(1) /\ Done(2)) =>
       /\ response[1].status = response[2].status
       /\ response[1].body = response[2].body
       /\ response[1].filename = response[2].filename

C1_Witness ==
  /\ Done(1) /\ Done(2)
  /\ "exception: webhook" \in logged[1]
  /\ LUAOBFUSCATOR_API_KEY /\ service.transform.asked
  /\ response[1].status = 200
  /\ response[1].body # << >>

\* C2: obfuscate_script always returns text, so no accepted submission ends
\* in a 500 response.
C2_ObfuscateScriptReturnsText ==
  \A r \in Runs :
    /\ Has(calls[r], "obfuscate_script.return") => obfuscated[r].type = "str"
    /\ (Done(r) /\ Accepted(r)) => response[r].status # 500

\* C3 as stated: a request is processed only when exactly one of file and
\* script is present.
C3_ExactlyOneInput ==
  \A r \in Runs :
    (session[r] # "unopened" \/ response[r].status = 200)
      => (FilePresent # ScriptPresent)

\* C3: a request is processed only when at least one of file and script is
\* present; when both are, the uploaded file is the content and the pasted
\* text is ignored.
C3_AtLeastOneInputFileFirst ==
  \A r \in Runs :
    (session[r] # "unopened" \/ response[r].status = 200) =>
      /\ FilePresent \/ ScriptPresent
      /\ content[r] = IF FilePresent THEN DecodeReplace(request.file.bytes)
                      ELSE request.script.text
      /\ incoming_name[r] = SourceName

C3_Witness ==
  /\ Done(1) /\ response[1].status = 200
  /\ FilePresent /\ ScriptPresent
  /\ response[1].body = request.file.bytes
  /\ response[1].body # Encode(request.script.text)

\* C4: a request with neither a file nor a non-empty script is answered 400
\* with no outbound call and no client session, whatever the filename and
\* the configuration.
C4_NoInputIs400 ==
  \A r \in Runs :
    (Received(r) /\ ~FilePresent /\ ~ScriptPresent) =>
      /\ Done(r)
      /\ response[r].status = 400
      /\ responses[r] = 1
      /\ calls[r] = << >>
      /\ ~webhook_form[r].posted
      /\ session[r] = "unopened"

C4_Witness ==
  /\ Done(1) /\ response[1].status = 400
  /\ request.script.given /\ request.filename.given
  /\ request.filename.text # << >>
  /\ LUAOBFUSCATOR_API_KEY /\ WEBHOOK_URL[1]

\* C5: the file name of a 200 response is the requested name if given, else
\* "obfuscated_" + source name, with ".lua" appended once iff it ends in
\* neither ".lua" nor ".txt" in any letter case; so it always has such a
\* suffix, and the rule leaves an already computed name unchanged.
C5_OutputFilename ==
  \A r \in Runs :
    (Done(r) /\ response[r].status = 200) =>
      LET base == IF request.filename.given /\ request.filename.text # << >>
                  THEN request.filename.text
                  ELSE obfuscated_prefix \o SourceName
          name == response[r].filename
      IN  /\ name = IF HasLuaOrTxtSuffix(base) THEN base ELSE base \o DotLua
          /\ HasLuaOrTxtSuffix(name)
          /\ OutName([given |-> TRUE, text |-> name], incoming_name[r]) = name

C5_Witness ==
  /\ Done(1) /\ response[1].status = 200
  /\ request.filename = [given |-> TRUE, text |-> << "o", "u", "t" >>]
  /\ response[1].filename = << "o", "u", "t", ".", "l", "u", "a" >>

\* Well-formed UTF-8 (RFC 3629): the byte sequences that encode text.
RECURSIVE WellFormedFrom(_, _)
WellFormedFrom(bs, i) ==
  IF i > Len(bs) THEN TRUE
  ELSE LET b == bs[i]
           In(k, lo, hi) == i + k <= Len(bs) /\ bs[i + k] \in lo..hi
       IN  CASE b \in 0..127 -> WellFormedFrom(bs, i + 1)
             [] b \in 194..223 -> In(1, 128, 191) /\ WellFormedFrom(bs, i + 2)
             [] b = 224 ->
                  In(1, 160, 191) /\ In(2, 128, 191) /\ WellFormedFrom(bs, i + 3)
             [] b \in (225..236) \cup (238..239) ->
                  In(1, 128, 191) /\ In(2, 128, 191) /\ WellFormedFrom(bs, i + 3)
             [] b = 237 ->
                  In(1, 128, 159) /\ In(2, 128, 191) /\ WellFormedFrom(bs, i + 3)
             [] b = 240 ->
                  /\ In(1, 144, 191) /\ In(2, 128, 191) /\ In(3, 128, 191)
                  /\ WellFormedFrom(bs, i + 4)
             [] b \in 241..243 ->
                  /\ In(1, 128, 191) /\ In(2, 128, 191) /\ In(3, 128, 191)
                  /\ WellFormedFrom(bs, i + 4)
             [] b = 244 ->
                  /\ In(1, 128, 143) /\ In(2, 128, 191) /\ In(3, 128, 191)
                  /\ WellFormedFrom(bs, i + 4)
             [] OTHER -> FALSE

WellFormedUTF8(bs) == WellFormedFrom(bs, 1)

\* The bytes the client sent as content.
InputBytes ==
  IF FilePresent THEN request.file.bytes ELSE Encode(request.script.text)

C7_TransformedCodeReturned ==
  \A r \in Runs :
    ( /\ Done(r) /\ Accepted(r) /\ LUAOBFUSCATOR_API_KEY
      /\ service.newscript.asked /\ service.transform.asked
      /\ service.newscript.reply.status = 200
      /\ service.transform.reply.net = "ok"
      /\ service.transform.reply.status = 200
      /\ service.transform.reply.json = "object" )
    => /\ response[r].status = 200
       /\ response[r].body = Encode(service.transform.reply.field.text)

\* The text the client sent, as the handler reads it.
OriginalText ==
  IF FilePresent THEN DecodeReplace(request.file.bytes) ELSE request.script.text

Posts == {"webhook.post", "newscript.post", "transform.post"}
ReplyTo(post) ==
  IF post = "webhook.post" THEN "webhook.reply"
  ELSE IF post = "newscript.post" THEN "newscript.reply"
  ELSE "transform.reply"

\* C8: in an accepted request send_to_webhook is called exactly once and
\* has returned before obfuscate_script is called or posts anything; the
\* webhook gets the original content under the source name; and no outbound
\* call starts while another is in flight.
C8_NotifyThenObfuscate ==
  \A r \in Runs :
    /\ Count(calls[r], "send_to_webhook.call") <= 1
    /\ Count(calls[r], "webhook.post") <= 1
    /\ (Accepted(r) /\ pc[r] \notin {"notify", "webhook_wait"}) =>
         /\ Count(calls[r], "send_to_webhook.call") = 1
         /\ Count(calls[r], "send_to_webhook.return") = 1
    /\ \A e \in {"obfuscate_script.call", "newscript.post", "transform.post"} :
         After(calls[r], "send_to_webhook.return", e)
    /\ Has(calls[r], "webhook.post") =>
         /\ webhook_form[r].posted
         /\ webhook_form[r].filename = SourceName
         /\ webhook_form[r].payload_json = SourceName
         /\ webhook_form[r].file = Encode(OriginalText)
    /\ \A i \in DOMAIN calls[r] :
         (calls[r][i] \in Posts /\ i < Len(calls[r]))
           => calls[r][i + 1] = ReplyTo(calls[r][i])

C8_Witness ==
  /\ Done(1) /\ WEBHOOK_URL[1] /\ LUAOBFUSCATOR_API_KEY
  /\ "warning: webhook" \in logged[1]
  /\ Has(calls[1], "transform.reply")
  /\ webhook_form[1].file # << >>

\* What newscript answered had no usable session id.
NoSessionId(rep) ==
  \/ rep.status # 200
  \/ rep.json # "object"
  \/ rep.field.type = "None"
  \/ rep.field.type = "str" /\ rep.field.text = << >>
  \/ rep.field.type = "int" /\ rep.field.num = 0

C10_EveryRequestCompletes ==
  /\ [](\A r \in Runs :
          /\ responses[r] <= 1
          /\ responses[r] = 1 <=> Done(r)
          /\ Done(r) =>
               /\ response[r].status \in {200, 400, 500}
               /\ session[r] # "open"
               /\ session[r] = "unopened" <=> response[r].status = 400)
  /\ <>Done(1)

C10_Witness ==
  /\ Done(1)
  /\ response[1].status = 500
  /\ session[1] = "closed"
  /\ responses[1] = 1

=============================================================================
